---- MODULE Spec2Model ----
(***************************************************************************)
(* The OAuth2 authorization code flow of                                   *)
(* allauth/socialaccount/providers/oauth2/views.py: OAuth2LoginView        *)
(* (StartLogin) and OAuth2CallbackView (HandleCallback), run by several    *)
(* request workers against one CSRF state store.                           *)
(***************************************************************************)
EXTENDS Integers, Sequences, FiniteSets, TLC

(***************************************************************************)
(* Values                                                                  *)
(***************************************************************************)

\* Python's None, for request parameters, attributes and dictionary lookups.
None == "None"

\* Python truthiness of an optional string: None and "" are falsy.
Truthy(v) == v # None /\ v # ""

\* Bound of the model: the number of requests (logins and callbacks) served.
MaxOps == 3

\* The request workers: requests are served concurrently, one per worker.
Workers == {"w1", "w2"}

\* The browser sessions the requests belong to.
Sessions == {"s1", "s2"}

\* views.py:22, AuthAction: the process a login can ask for.
AUTHENTICATE == "authenticate"
REAUTHENTICATE == "reauthenticate"
REQUEST == "request"

\* views.py:22, AuthError: the kinds of a fast-path rejection.
CANCELLED == "cancelled"
UNKNOWN == "unknown"

\* The values of the "action" query parameter of a login request.
ActionParams == {None, REAUTHENTICATE, REQUEST}

\* The values of the "error" query parameter of a callback.
ErrorParams == {None, "", "access_denied", "server_error"}

\* The values of the "code" query parameter of a callback.
CodeParams == {None, "", "c1"}

\* The instants timezone.now() can return while a token is parsed.
Times == {100}

\* SocialToken.expires_at when parse_token leaves it unset.
NoExpiry == -1

(***************************************************************************)
(* OAuth2Adapter: per-provider configuration (views.py:25-34)              *)
(***************************************************************************)

\* The adapters a view can be bound to: the default class attributes, and a
\* provider that opts out of state (supports_state = False).
Adapters ==
    { [supports_state |-> TRUE, login_cancelled_error |-> "access_denied",
       expires_in_key |-> "expires_in"],
      [supports_state |-> FALSE, login_cancelled_error |-> "access_denied",
       expires_in_key |-> "expires_in"] }

(***************************************************************************)
(* Token responses and OAuth2Adapter.parse_token (views.py:53-59)          *)
(***************************************************************************)

\* A value of the token response's expiry field: a JSON number, a JSON
\* string (its characters), or None for data.get's default.
IntVal(n) == [kind |-> "int", n |-> n, chars |-> <<>>]
StrVal(cs) == [kind |-> "str", n |-> 0, chars |-> cs]
NoneVal == [kind |-> "none", n |-> 0, chars |-> <<>>]

\* Python truthiness of such a value: 0, "" and None are falsy.
TruthyVal(v) ==
    CASE v.kind = "int" -> v.n # 0
      [] v.kind = "str" -> v.chars # <<>>
      [] OTHER -> FALSE

Digits == {"0", "1", "2", "3", "4", "5", "6", "7", "8", "9"}

DigitValue(c) ==
    CASE c = "0" -> 0 [] c = "1" -> 1 [] c = "2" -> 2 [] c = "3" -> 3
      [] c = "4" -> 4 [] c = "5" -> 5 [] c = "6" -> 6 [] c = "7" -> 7
      [] c = "8" -> 8 [] c = "9" -> 9

RECURSIVE StripLeft(_)
StripLeft(cs) ==
    IF cs # <<>> /\ Head(cs) = " " THEN StripLeft(Tail(cs)) ELSE cs

RECURSIVE StripRight(_)
StripRight(cs) ==
    IF cs # <<>> /\ cs[Len(cs)] = " "
    THEN StripRight(SubSeq(cs, 1, Len(cs) - 1))
    ELSE cs

RECURSIVE DigitsValue(_, _)
DigitsValue(cs, acc) ==
    IF cs = <<>> THEN acc
    ELSE DigitsValue(Tail(cs), 10 * acc + DigitValue(Head(cs)))

\* Python's int() of a string: surrounding blanks stripped, an optional
\* sign, then one or more decimal digits; anything else is a ValueError.
IntOfStr(cs) ==
    LET t == StripRight(StripLeft(cs))
        signed == t # <<>> /\ Head(t) \in {"+", "-"}
        ds == IF signed THEN Tail(t) ELSE t
        ok == ds # <<>> /\ \A i \in 1..Len(ds) : ds[i] \in Digits
        mag == IF ok THEN DigitsValue(ds, 0) ELSE 0
    IN  [ok |-> ok, n |-> IF signed /\ Head(t) = "-" THEN 0 - mag ELSE mag]

\* Python's int() of an expiry value.
IntOf(v) ==
    IF v.kind = "int" THEN [ok |-> TRUE, n |-> v.n] ELSE IntOfStr(v.chars)

\* dict.get(key, default)
Get(data, key, default) == IF key \in DOMAIN data THEN data[key] ELSE default

\* SocialToken(): token, token_secret (the refresh token), expires_at, app.
NoToken ==
    [token |-> None, token_secret |-> None, expires_at |-> NoExpiry,
     app |-> None]

\* views.py:53-59. exc is the exception the call raises, or None.
parse_token(adapter, data, now) ==
    IF "access_token" \notin DOMAIN data
    THEN [exc |-> "KeyError", token |-> NoToken]
    ELSE LET expires_in == Get(data, adapter.expires_in_key, NoneVal)
             secret == Get(data, "refresh_token", "")
             base == [token |-> data["access_token"],
                      token_secret |-> secret,
                      expires_at |-> NoExpiry, app |-> None]
         IN  IF TruthyVal(expires_in)
             THEN IF IntOf(expires_in).ok
                  THEN [exc |-> None,
                        token |-> [base EXCEPT
                                     !.expires_at = now + IntOf(expires_in).n]]
                  ELSE [exc |-> "ValueError", token |-> NoToken]
             ELSE [exc |-> None, token |-> base]

\* The token responses the provider's token endpoint returns in this model.
RawResponses ==
    { [access_token |-> "tokA", refresh_token |-> "r",
       expires_in |-> StrVal(<<"6", "0">>)],
      [refresh_token |-> "r"],
      [access_token |-> "tokA", expires_in |-> StrVal(<<"s", "o", "o", "n">>)] }

\* Before the exchange has answered.
NoData == [pending |-> "pending"]

\* client.get_access_token(code): the token response, or the exception the
\* client raises for a transport or protocol failure.
ExchangeOutcomes ==
    { [exc |-> None, data |-> d] : d \in RawResponses } \cup
    { [exc |-> e, data |-> NoData] : e \in {"OAuth2Error", "RequestException"} }

\* The adapters parse_token is called on by itself: the ones above, and a
\* provider that names its expiry field "expires" (expires_in_key).
ParseAdapters ==
    Adapters \cup
    { [supports_state |-> TRUE, login_cancelled_error |-> "access_denied",
       expires_in_key |-> "expires"] }

\* The instants timezone.now() can return when parse_token is called by
\* itself.
ParseTimes == {100, 101}

\* The expiry values of a token response given to parse_token: the numbers
\* 0 and 60, numeric strings (with and without blanks around them), a word
\* and the empty string.
ExpiryValues ==
    { IntVal(0), IntVal(60), StrVal(<<"0">>), StrVal(<<"6", "0">>),
      StrVal(<<" ", "6", "0", " ">>), StrVal(<<"s", "o", "o", "n">>),
      StrVal(<<>>) }

\* A dictionary without keys, and one with a single key.
EmptyDict == [k \in {} |-> None]
Entry(k, v) == [x \in {k} |-> v]

\* The dictionary that has the keys of both; d's value where both have one.
Merge(d, e) ==
    [k \in DOMAIN d \cup DOMAIN e |-> IF k \in DOMAIN d THEN d[k] ELSE e[k]]

\* The token responses parse_token is given when it is called by itself:
\* access_token and refresh_token each present or absent, and the expiry
\* absent or present under one of the two keys, with any of the values.
ParseInputs ==
    { Merge(at, Merge(rt, ex)) :
        at \in {EmptyDict, Entry("access_token", "tokA")},
        rt \in {EmptyDict, Entry("refresh_token", "r")},
        ex \in {EmptyDict} \cup
               { Entry(k, v) : k \in {"expires_in", "expires"},
                               v \in ExpiryValues } }

\* A call of parse_token: its argument, the clock, and what it has returned
\* or raised (NotCalled before the call).
NotCalled == [exc |-> "pending", token |-> NoToken]
NoParsing == [data |-> EmptyDict, now |-> 0, out |-> NotCalled]

(***************************************************************************)
(* The CSRF state store (SocialLogin.stash_state, verify_and_unstash_state *)
(* and unstash_state): per session, the pending verifiers and the metadata *)
(* of the login each one belongs to.                                       *)
(***************************************************************************)

NoMeta == [action |-> None]

EmptyPending == [v \in {} |-> NoMeta]

\* get_random_string: the n-th verifier generated is fresh.
FreshState(n) == ToString(n)

\* Stash(stateToken, metadata): the verifier is added to the session's
\* pending entries.
stash_state(pending, verifier, meta) ==
    [v \in DOMAIN pending \cup {verifier} |->
        IF v = verifier THEN meta ELSE pending[v]]

\* VerifyAndConsume(stateToken) -> metadata | NotFound: one atomic
\* read-then-delete; NotFound is raised as PermissionDenied.
verify_and_unstash_state(pending, verifier) ==
    IF verifier \in DOMAIN pending
    THEN [exc |-> None, state |-> pending[verifier],
          pending |-> [v \in DOMAIN pending \ {verifier} |-> pending[v]]]
    ELSE [exc |-> "PermissionDenied", state |-> NoMeta, pending |-> pending]

\* Unstash() -> metadata: whatever pending entry is available is taken, with
\* no verifier to match; with nothing pending the metadata is empty.
unstash_state(pending) ==
    IF DOMAIN pending = {}
    THEN { [exc |-> None, state |-> NoMeta, pending |-> pending] }
    ELSE { [exc |-> None, state |-> pending[u],
            pending |-> [v \in DOMAIN pending \ {u} |-> pending[v]]] :
           u \in DOMAIN pending }

(***************************************************************************)
(* Pieces of the two dispatch methods                                      *)
(***************************************************************************)

\* views.py:108: request.GET.get('action', AuthAction.AUTHENTICATE)
RequestAction(param) == IF param = None THEN AUTHENTICATE ELSE param

\* The metadata stash_state derives from the login request.
state_from_request(action_param) == [action |-> RequestAction(action_param)]

\* A slip that would break C6: "and" for "or".
FastPath_and(auth_error, code) == Truthy(auth_error) /\ ~Truthy(code)

\* views.py:127: the fast-path test of the callback.
FastPath(auth_error, code) == Truthy(auth_error) \/ ~Truthy(code)

\* A slip that would break C5: the comparison is inverted.
Classify_inverted(adapter, auth_error) ==
    IF auth_error # adapter.login_cancelled_error THEN CANCELLED ELSE UNKNOWN

\* views.py:129-132: cancel is told from error.
Classify(adapter, auth_error) ==
    IF auth_error = adapter.login_cancelled_error THEN CANCELLED ELSE UNKNOWN

\* A slip that would break C2: PermissionDenied is left out of the tuple.
CallbackCatches_fewer(exc) ==
    exc \in {"OAuth2Error", "RequestException", "ProviderException"}

\* views.py:162-167: the exceptions the callback's try block catches.
CallbackCatches(exc) ==
    exc \in {"PermissionDenied", "OAuth2Error", "RequestException",
             "ProviderException"}

\* views.py:115: the exception the login's try block catches.
LoginCatches(exc) == exc = "OAuth2Error"

\* render_authentication_error(exception=e): the classified failure kind.
ErrorKind(op, exc) ==
    CASE exc = "PermissionDenied" -> "StateMismatchError"
      [] exc = "ProviderException" -> "ProviderError"
      [] exc = "OAuth2Error" /\ op = "login" -> "ClientConfigError"
      [] OTHER -> "ProtocolError"

\* A slip that would break C15: the pending state is kept in one place for
\* all requests instead of being reached through the request.
StoreKey_shared(request) == "s1"

\* views.py:111, 156 and 158: the store calls are given the request the
\* view is serving, and reach the pending state of that request's session.
StoreKey(request) == request.session

\* A slip that would break C18: the client is given a value of its own
\* instead of the verifier that was stashed.
ClientState_other(adapter, verifier) == "other"

\* views.py:111: client.state = SocialLogin.stash_state(request); the
\* verifier is given to the client whatever adapter.supports_state says.
ClientState(adapter, verifier) == verifier

\* A slip that would break C9: a failed exchange is submitted once more.
CountExchange_retry(n, out) == IF out.exc # None THEN n + 2 ELSE n + 1

\* views.py:61-63 called at 142-144: get_access_token is called once,
\* whatever it answers; n counts the requests sent to the token endpoint.
CountExchange(n, out) == n + 1

\* A SocialLogin as complete_login returns it: token and state not yet set.
NoLogin == [account |-> None, token |-> NoToken, state |-> NoMeta]
NewLogin == [account |-> "user", token |-> NoToken, state |-> NoMeta]

\* views.py:146: token.app = app
SetApp(token, app) == [token EXCEPT !.app = app]

\* A slip that would break C1: the parsed token is not attached.
AttachToken_dropped(login, token) == login

\* views.py:151: login.token = token
AttachToken(login, token) == [login EXCEPT !.token = token]

\* A slip that would break C8: the stashed metadata is not attached.
AttachState_dropped(login, state) == login

\* views.py:156 and 158: login.state = ...
AttachState(login, state) == [login EXCEPT !.state = state]

\* A slip that would break C3: the verifier is never matched.
LoginState_unkeyed(adapter, pending, state) == unstash_state(pending)

\* A slip that would break C4: the state is verified but left in the store.
LoginState_peek(adapter, pending, state) ==
    IF adapter.supports_state
    THEN { [verify_and_unstash_state(pending, state)
              EXCEPT !.pending = pending] }
    ELSE unstash_state(pending)

\* A slip that would break C14: the verifier is matched whatever
\* supports_state says.
LoginState_verified(adapter, pending, state) ==
    { verify_and_unstash_state(pending, state) }

\* views.py:155-158: the state the callback attaches to the login, and what
\* is left pending: the set of possible outcomes of the store call.
LoginState(adapter, pending, state) ==
    IF adapter.supports_state
    THEN { verify_and_unstash_state(pending, state) }
    ELSE unstash_state(pending)

(***************************************************************************)
(* State                                                                   *)
(***************************************************************************)

VARIABLES
    adapter,     \* the OAuth2Adapter class the views are bound to
    store,       \* session -> pending verifiers and their metadata
    issued,      \* number of verifiers generated so far
    nops,        \* number of requests begun so far
    pc,          \* worker -> position in the dispatch it is serving
    req,         \* worker -> the request it is serving
    loc,         \* worker -> the locals of that dispatch
    last,        \* the dispatch that returned last: request, locals, result
    stashed,     \* history: every verifier stashed, with session and metadata
    consumed,    \* history: every verifier taken from the store, and by whom
    completions, \* history: every callback handed to complete_social_login
    parsing      \* a call of parse_token by itself: argument, clock, outcome

vars ==
    <<adapter, store, issued, nops, pc, req, loc, last, stashed, consumed,
      completions, parsing>>

APP == "app"

NoReq ==
    [op |-> "none", id |-> 0, session |-> None, action |-> None,
     error |-> None, code |-> None, state |-> None]

NoLoc ==
    [token_data |-> NoData, token |-> NoToken, login |-> NoLogin,
     exchanges |-> 0, complete_logins |-> 0, handoffs |-> 0]

NoResult ==
    [kind |-> "none", error |-> None, login |-> NoLogin, client_state |-> None]

\* HttpResponseRedirect to the authorization URL built with client.state.
Redirect(client_state) ==
    [kind |-> "redirect", error |-> None, login |-> NoLogin,
     client_state |-> client_state]

\* render_authentication_error: a classified failure.
Failed(error) ==
    [kind |-> "failed", error |-> error, login |-> NoLogin,
     client_state |-> None]

\* An exception that leaves dispatch and adapter_view (views.py:75-78
\* catches ImmediateHttpResponse alone).
Raised(exc) ==
    [kind |-> "raised", error |-> exc, login |-> NoLogin, client_state |-> None]

\* complete_social_login(request, login): the login is handed over.
Completed(login) ==
    [kind |-> "completed", error |-> None, login |-> login,
     client_state |-> None]

\* views.py:162-170: an exception raised inside the callback's try block.
CallbackExcept(exc) ==
    IF CallbackCatches(exc) THEN Failed(ErrorKind("callback", exc))
    ELSE Raised(exc)

\* views.py:112-119: an exception raised inside the login's try block.
LoginExcept(exc) ==
    IF LoginCatches(exc) THEN Failed(ErrorKind("login", exc)) ELSE Raised(exc)

\* The values a callback's "state" parameter can take: absent, made up, or
\* any verifier generated so far.
StateParams == {None, "forged"} \cup {FreshState(i) : i \in 1..issued}

\* The view returns: its worker is free again and the outcome is recorded.
Return(w, r, l, res) ==
    /\ last' = [req |-> r, loc |-> l, result |-> res]
    /\ pc' = [pc EXCEPT ![w] = "idle"]
    /\ req' = [req EXCEPT ![w] = NoReq]
    /\ loc' = [loc EXCEPT ![w] = NoLoc]

Init ==
    /\ adapter \in Adapters
    /\ store = [s \in Sessions |-> EmptyPending]
    /\ issued = 0
    /\ nops = 0
    /\ pc = [w \in Workers |-> "idle"]
    /\ req = [w \in Workers |-> NoReq]
    /\ loc = [w \in Workers |-> NoLoc]
    /\ last = [req |-> NoReq, loc |-> NoLoc, result |-> NoResult]
    /\ stashed = {}
    /\ consumed = {}
    /\ completions = {}
    /\ parsing = NoParsing

(***************************************************************************)
(* OAuth2LoginView.dispatch (views.py:104-119)                             *)
(***************************************************************************)
StartLogin(w) ==
    /\ pc[w] = "idle"
    /\ nops < MaxOps
    /\ \E s \in Sessions, a \in ActionParams,
          env \in {"no_app", "bad_redirect_uri", "ok"} :
        LET r == [op |-> "login", id |-> nops + 1, session |-> s,
                  action |-> a, error |-> None, code |-> None,
                  state |-> None]
            verifier == FreshState(issued + 1)
            meta == state_from_request(a)
        IN  /\ nops' = nops + 1
            /\ IF env = "no_app"
               THEN \* 106: get_app raises outside any try block
                    /\ Return(w, r, NoLoc, Raised("ProviderConfigError"))
                    /\ UNCHANGED <<store, issued, stashed>>
               ELSE \* 111: the state is stashed, then 112-119 build the URL
                    /\ store' = [store EXCEPT
                                   ![StoreKey(r)] =
                                       stash_state(@, verifier, meta)]
                    /\ issued' = issued + 1
                    /\ stashed' = stashed \cup
                          {[verifier |-> verifier, session |-> s,
                            action |-> a, meta |-> meta]}
                    /\ Return(w, r, NoLoc,
                              IF env = "ok"
                              THEN Redirect(ClientState(adapter, verifier))
                              ELSE LoginExcept("OAuth2Error"))
    /\ UNCHANGED <<adapter, consumed, completions, parsing>>

(***************************************************************************)
(* OAuth2CallbackView.dispatch (views.py:124-170), step by step            *)
(***************************************************************************)

\* What adapter.complete_login does: it returns the login (None here), or
\* raises.
CompleteLoginOutcomes == {None, "ProviderException", "RequestException"}

\* A slip that would break C16: the state check is reached whatever the
\* exchange, parse_token and complete_login did.
TryBody_unchecked(adapter_, out, now, cl) ==
    [exc |-> None,
     loc |-> [NoLoc EXCEPT !.exchanges = 1, !.token_data = out.data]]

\* views.py:141-151, the try block up to the state check: the token
\* endpoint is called once (142-144), its response is parsed (145-146) and
\* complete_login builds the login the token is attached to (148-151). The
\* first step that raises ends the block: exc is what it raised, or None,
\* and loc the locals at that point.
TryBody(adapter_, out, now, cl) ==
    LET l1 == [NoLoc EXCEPT
                 !.exchanges = CountExchange(NoLoc.exchanges, out)]
        l2 == [l1 EXCEPT !.token_data = out.data]
        p == parse_token(adapter_, out.data, now)
        token == SetApp(p.token, APP)
        l3 == [l2 EXCEPT !.token = token, !.complete_logins = @ + 1]
        l4 == [l3 EXCEPT !.login = AttachToken(NewLogin, token)]
    IN  IF out.exc # None THEN [exc |-> out.exc, loc |-> l1]
        ELSE IF p.exc # None THEN [exc |-> p.exc, loc |-> l2]
        ELSE IF cl # None THEN [exc |-> cl, loc |-> l3]
        ELSE [exc |-> None, loc |-> l4]

\* 125-151: the parameters are read and the fast path rejects (125-136);
\* otherwise the app and the client are looked up (138-139), the token
\* endpoint is called once (142-144), the response is parsed (145-146) and
\* the adapter's complete_login builds the login (148-151). None of it
\* touches the state store.
BeginCallback(w) ==
    /\ pc[w] = "idle"
    /\ nops < MaxOps
    /\ nops' = nops + 1
    /\ \E s \in Sessions, e \in ErrorParams, c \in CodeParams,
          st \in StateParams :
        LET r == [op |-> "callback", id |-> nops + 1, session |-> s,
                  action |-> None, error |-> e, code |-> c, state |-> st]
        IN  IF FastPath(e, c)
            THEN Return(w, r, NoLoc, Failed(Classify(adapter, e)))
            ELSE
            \/ \* 138: get_app raises outside the try block
               Return(w, r, NoLoc, Raised("ProviderConfigError"))
            \/ \E out \in ExchangeOutcomes, now \in Times :
              \E cl \in (IF out.exc = None THEN CompleteLoginOutcomes
                         ELSE {None}) :  \* not called after a failed exchange
                LET b == TryBody(adapter, out, now, cl)
                IN  IF b.exc # None
                    THEN \* 162-170: the step that raised ends the callback
                         Return(w, r, b.loc, CallbackExcept(b.exc))
                    ELSE \* 153: on to the state check
                         /\ req' = [req EXCEPT ![w] = r]
                         /\ loc' = [loc EXCEPT ![w] = b.loc]
                         /\ pc' = [pc EXCEPT ![w] = "verify"]
                         /\ UNCHANGED last
    /\ UNCHANGED <<adapter, store, issued, stashed, consumed, completions,
                   parsing>>

\* 153-160: the state is taken from the store, and the login is handed to
\* complete_social_login.
VerifyAndHandOff(w) ==
    /\ pc[w] = "verify"
    /\ \E r \in LoginState(adapter, store[StoreKey(req[w])], req[w].state) :
        IF r.exc = None
        THEN LET login == AttachState(loc[w].login, r.state)
             IN  /\ store' = [store EXCEPT ![StoreKey(req[w])] = r.pending]
                 /\ consumed' = consumed \cup
                      {[verifier |-> v, by |-> req[w].id] :
                         v \in DOMAIN store[StoreKey(req[w])]
                                 \ DOMAIN r.pending}
                 /\ completions' = completions \cup
                      {[id |-> req[w].id, state |-> req[w].state]}
                 /\ Return(w, req[w],
                           [loc[w] EXCEPT !.login = login, !.handoffs = @ + 1],
                           Completed(login))
        ELSE /\ Return(w, req[w], loc[w], CallbackExcept(r.exc))
             /\ UNCHANGED <<store, consumed, completions>>
    /\ UNCHANGED <<adapter, issued, nops, stashed, parsing>>

Next ==
    \/ \E w \in Workers : StartLogin(w)
    \/ \E w \in Workers : BeginCallback(w)
    \/ \E w \in Workers : VerifyAndHandOff(w)

Spec == Init /\ [][Next]_vars

(***************************************************************************)
(* OAuth2Adapter.parse_token called by itself (views.py:53-59)             *)
(***************************************************************************)

\* No request is being served; a token response and the clock are given.
InitParse ==
    /\ adapter \in ParseAdapters
    /\ store = [s \in Sessions |-> EmptyPending]
    /\ issued = 0
    /\ nops = 0
    /\ pc = [w \in Workers |-> "idle"]
    /\ req = [w \in Workers |-> NoReq]
    /\ loc = [w \in Workers |-> NoLoc]
    /\ last = [req |-> NoReq, loc |-> NoLoc, result |-> NoResult]
    /\ stashed = {}
    /\ consumed = {}
    /\ completions = {}
    /\ parsing \in { [data |-> d, now |-> t, out |-> NotCalled] :
                        d \in ParseInputs, t \in ParseTimes }

\* adapter.parse_token(data) returns or raises.
ParseToken ==
    /\ parsing.out = NotCalled
    /\ parsing' = [parsing EXCEPT
                     !.out = parse_token(adapter, parsing.data, parsing.now)]
    /\ UNCHANGED <<adapter, store, issued, nops, pc, req, loc, last, stashed,
                   consumed, completions>>

NextParse == ParseToken

SpecParse == InitParse /\ [][NextParse]_vars

(***************************************************************************)
(* Vocabulary of the properties                                            *)
(***************************************************************************)

\* The dispatch that returned last was a callback / a login.
CallbackReturned == last.req.op = "callback" /\ last.result.kind # "none"
LoginReturned == last.req.op = "login" /\ last.result.kind # "none"

\* Some StartLogin stashed verifier v in session s.
StashedIn(s, v) == \E e \in stashed : e.verifier = v /\ e.session = s

\* A request other than number id took v from the store.
ConsumedByOther(v, id) == \E c \in consumed : c.verifier = v /\ c.by # id

\* The state the returned callback presented was pending for its session
\* when the callback came to (or would have come to) the state check.
PresentedPending ==
    /\ StashedIn(last.req.session, last.req.state)
    /\ ~ConsumedByOther(last.req.state, last.req.id)

\* How far the returned callback got inside the try block.
ExchangeSucceeded == last.loc.exchanges > 0 /\ last.loc.token_data # NoData
ParseSucceeded ==
    /\ ExchangeSucceeded
    /\ \E now \in Times :
         parse_token(adapter, last.loc.token_data, now).exc = None
CompleteLoginSucceeded == ParseSucceeded /\ last.loc.login # NoLogin

\* The token parse_token makes of the returned callback's token response.
ParsedTokens ==
    { SetApp(parse_token(adapter, last.loc.token_data, now).token, APP) :
        now \in Times }

StateMismatch == Failed("StateMismatchError")

\* parse_token, called by itself, has returned or raised.
Parsed == parsing.out # NotCalled

\* The expiry field the adapter names is in the token response.
ExpiryPresent == adapter.expires_in_key \in DOMAIN parsing.data

\* The expiry field is there and int() takes its value.
ExpiryParseable ==
    ExpiryPresent /\ IntOf(parsing.data[adapter.expires_in_key]).ok

(***************************************************************************)
(* C1-C10                                                                  *)
(***************************************************************************)

\* C1: with supports_state, a callback with a non-empty code, no error and
\* a state that a StartLogin stashed for its session and that no other
\* request has consumed, whose exchange, parse_token and complete_login all
\* succeed, ends with the login handed to complete_social_login once, and
\* that login carries exactly the token parsed from the callback's own token
\* response.
C1_ValidCallbackCompletes ==
    ( /\ adapter.supports_state
      /\ CallbackReturned
      /\ Truthy(last.req.code)
      /\ last.req.error = None
      /\ PresentedPending
      /\ CompleteLoginSucceeded )
    => /\ last.result.kind = "completed"
       /\ last.loc.handoffs = 1
       /\ last.result.login.token \in ParsedTokens
       /\ last.result.login.token.token = last.loc.token_data["access_token"]

\* C1's case: the callback presents the older of two verifiers pending in
\* its session and completes.
C1_Witness ==
    /\ adapter.supports_state
    /\ CallbackReturned
    /\ last.result.kind = "completed"
    /\ last.req.state = FreshState(1)
    /\ \E e \in stashed :
         e.session = last.req.session /\ e.verifier = FreshState(2)

\* C2 as stated, read in its favour for the callbacks that pass the fast
\* path and from which no exception escapes: with supports_state, a callback
\* whose state is missing or not pending ends in StateMismatchError.
C2_Original ==
    ( /\ adapter.supports_state
      /\ CallbackReturned
      /\ ~FastPath(last.req.error, last.req.code)
      /\ last.result.kind # "raised"
      /\ ~PresentedPending )
    => last.result = StateMismatch

\* C2, amended: with supports_state, a callback whose state is missing or
\* not pending is never handed to complete_social_login, and it ends in
\* StateMismatchError whenever it gets as far as the state check, that is
\* whenever its exchange, parse_token and complete_login succeeded.
C2_BadStateNeverCompletes ==
    ( /\ adapter.supports_state
      /\ CallbackReturned
      /\ ~PresentedPending )
    => /\ last.result.kind # "completed"
       /\ last.loc.handoffs = 0
       /\ CompleteLoginSucceeded => last.result = StateMismatch

\* C2's case: a callback with a made-up or missing state got as far as the
\* state check and was rejected there.
C2_Witness ==
    /\ adapter.supports_state
    /\ CallbackReturned
    /\ last.req.state \in {None, "forged"}
    /\ CompleteLoginSucceeded
    /\ last.result = StateMismatch

\* C3 as stated, read in its favour as for C2: once a callback has
\* completed with a state value, every later callback presenting that value
\* yields StateMismatchError.
C3_Original ==
    ( /\ adapter.supports_state
      /\ CallbackReturned
      /\ ~FastPath(last.req.error, last.req.code)
      /\ last.result.kind # "raised"
      /\ ConsumedByOther(last.req.state, last.req.id) )
    => last.result = StateMismatch

\* C3, amended: a state value verifies at most once; a callback presenting
\* a value that another callback has consumed never completes, and yields
\* StateMismatchError whenever its exchange, parse_token and complete_login
\* succeeded.
C3_SingleUse ==
    adapter.supports_state =>
      /\ \A c1, c2 \in consumed : c1.verifier = c2.verifier => c1.by = c2.by
      /\ ( CallbackReturned /\ ConsumedByOther(last.req.state, last.req.id) )
         => /\ last.result.kind # "completed"
            /\ CompleteLoginSucceeded => last.result = StateMismatch

\* C3's case: a replay of a consumed state got as far as the state check.
C3_Witness ==
    /\ adapter.supports_state
    /\ CallbackReturned
    /\ ConsumedByOther(last.req.state, last.req.id)
    /\ CompleteLoginSucceeded
    /\ last.result = StateMismatch

\* C4: with supports_state, of the callbacks that carry one state value,
\* however their steps interleave, at most one is handed to
\* complete_social_login.
C4_AtMostOneCompletes ==
    adapter.supports_state =>
      \A c1, c2 \in completions : c1.state = c2.state => c1.id = c2.id

\* C4's case: two callbacks carrying the same pending state were both at
\* the state check; the one that began later completed first, and the other
\* was then rejected.
C4_Witness ==
    /\ adapter.supports_state
    /\ CallbackReturned
    /\ last.result = StateMismatch
    /\ \E c \in completions :
         c.state = last.req.state /\ c.id > last.req.id

\* C5 as stated, read in its favour for the callbacks from which no
\* exception escapes: a callback in which error is present or code is absent
\* is rejected as cancelled exactly when error is the adapter's
\* login_cancelled_error, and as unknown otherwise.
C5_Original ==
    ( /\ CallbackReturned
      /\ last.result.kind # "raised"
      /\ (last.req.error # None \/ last.req.code = None) )
    => last.result =
         Failed(IF last.req.error = adapter.login_cancelled_error
                THEN CANCELLED ELSE UNKNOWN)

\* C5, amended: a callback in which error is present and not empty, or code
\* is absent or empty, is rejected as cancelled exactly when error is the
\* adapter's login_cancelled_error, and as unknown otherwise.
C5_FastPathClassification ==
    ( /\ CallbackReturned
      /\ \/ last.req.error \notin {None, ""}
         \/ last.req.code \in {None, ""} )
    => last.result =
         Failed(IF last.req.error = adapter.login_cancelled_error
                THEN CANCELLED ELSE UNKNOWN)

\* C5's case: a cancel that comes together with a code.
C5_Witness ==
    /\ CallbackReturned
    /\ last.req.error = adapter.login_cancelled_error
    /\ last.req.code = "c1"
    /\ last.result = Failed(CANCELLED)

\* C6 as stated: a callback in which error is present or code is absent
\* calls neither the token endpoint nor complete_login.
C6_Original ==
    ( CallbackReturned /\ (last.req.error # None \/ last.req.code = None) )
    => /\ last.loc.exchanges = 0
       /\ last.loc.complete_logins = 0

\* C6, amended: a callback in which error is present and not empty, or code
\* is absent or empty, calls neither the token endpoint nor complete_login
\* and ends in Failed, also when a code comes with the error.
C6_FastPathNoCalls ==
    ( /\ CallbackReturned
      /\ \/ last.req.error \notin {None, ""}
         \/ last.req.code \in {None, ""} )
    => /\ last.loc.exchanges = 0
       /\ last.loc.complete_logins = 0
       /\ last.loc.handoffs = 0
       /\ last.result.kind = "failed"

\* C6's case: an error that comes together with a code.
C6_Witness ==
    /\ CallbackReturned
    /\ last.req.error = "server_error"
    /\ last.req.code = "c1"
    /\ last.loc.exchanges = 0
    /\ last.result.kind = "failed"

\* C7, for the callbacks that called the token endpoint: no failure leaves
\* the view as an exception.
C7_NoFailureEscapes ==
    ( CallbackReturned /\ last.loc.exchanges > 0 )
    => last.result.kind # "raised"

\* C8: with supports_state, the state of a login handed to
\* complete_social_login is the metadata stashed by the StartLogin that
\* generated the verifier the callback presented, and carries the action
\* that StartLogin was asked for.
C8_ActionPreserved ==
    ( /\ adapter.supports_state
      /\ CallbackReturned
      /\ last.result.kind = "completed" )
    => \E e \in stashed :
         /\ e.verifier = last.req.state
         /\ e.session = last.req.session
         /\ last.result.login.state = e.meta
         /\ last.result.login.state.action =
              (IF e.action = None THEN AUTHENTICATE ELSE e.action)

\* C8's case: two logins with different actions are pending in one session
\* and the callback completes the one asked to reauthenticate.
C8_Witness ==
    /\ adapter.supports_state
    /\ CallbackReturned
    /\ last.result.kind = "completed"
    /\ last.result.login.state.action = REAUTHENTICATE
    /\ \E e \in stashed :
         /\ e.session = last.req.session
         /\ e.verifier # last.req.state
         /\ e.meta.action = REQUEST

\* C9: a callback sends at most one request to the token endpoint, whatever
\* the answer, and a login sends none.
C9_NoRetry ==
    /\ \A w \in Workers : loc[w].exchanges <= 1
    /\ last.loc.exchanges <= 1
    /\ LoginReturned => last.loc.exchanges = 0

\* C9's case: the exchange failed and was not sent again.
C9_Witness ==
    /\ CallbackReturned
    /\ last.result = Failed("ProtocolError")
    /\ last.loc.exchanges = 1

\* C10: a callback whose token response lacks access_token ends in Failed
\* with MalformedTokenError.
C10_MissingAccessTokenClassified ==
    ( /\ CallbackReturned
      /\ ExchangeSucceeded
      /\ "access_token" \notin DOMAIN last.loc.token_data )
    => last.result = Failed("MalformedTokenError")

(***************************************************************************)
(* C11-C19                                                                 *)
(***************************************************************************)

\* C11: for a token response that contains access_token, parse_token
\* returns a token whose token is that value and whose token_secret is
\* refresh_token, or "" when that is absent; whose expires_at is unset when
\* the expiry field is absent, and is now + seconds whenever the field is
\* present and parseable as an integer, 0 included, given as a number or as
\* a numeric string.
C11_ParseTokenContract ==
    ( /\ Parsed
      /\ "access_token" \in DOMAIN parsing.data
      /\ (~ExpiryPresent \/ ExpiryParseable) )
    => /\ parsing.out.exc = None
       /\ parsing.out.token.token = parsing.data["access_token"]
       /\ parsing.out.token.token_secret =
            Get(parsing.data, "refresh_token", "")
       /\ parsing.out.token.expires_at =
            (IF ExpiryPresent
             THEN parsing.now +
                  IntOf(parsing.data[adapter.expires_in_key]).n
             ELSE NoExpiry)

\* C12: parse_token on a token response whose expiry field is present but
\* not parseable as an integer fails with an error, whatever its class; it
\* never returns a token.
C12_UnparsableExpiryFails ==
    ( /\ Parsed
      /\ "access_token" \in DOMAIN parsing.data
      /\ ExpiryPresent
      /\ ~ExpiryParseable )
    => parsing.out.exc # None

\* C13: the redirect a StartLogin returns carries a state only if the
\* adapter has supports_state; without it, no state value is given to the
\* client that builds the authorization URL.
C13_StateOnlyIfSupported ==
    ( LoginReturned /\ last.result.kind = "redirect" )
    => ( last.result.client_state # None => adapter.supports_state )

\* C17: a StartLogin that does not return a redirect has stashed nothing:
\* the state store changes in a StartLogin only when it returns the
\* authorization URL, and a StartLogin that fails with ClientConfigError
\* leaves the store as it was.
C17_FailedLoginStashesNothing ==
    [][ ( /\ last' # last
          /\ last'.req.op = "login"
          /\ last'.result.kind # "redirect" )
        => store' = store ]_vars

\* C18: with supports_state, the state value a StartLogin that returns a
\* redirect gave to the client is the verifier that this StartLogin added
\* to its session's pending entries, with the metadata of this request.
C18_ClientStateIsStashed ==
    [][ ( /\ adapter.supports_state
          /\ last' # last
          /\ last'.req.op = "login"
          /\ last'.result.kind = "redirect" )
        => /\ DOMAIN store'[last'.req.session] \ DOMAIN store[last'.req.session]
                = {last'.result.client_state}
           /\ store'[last'.req.session][last'.result.client_state]
                = state_from_request(last'.req.action)
           /\ \A s \in Sessions \ {last'.req.session} :
                store'[s] = store[s] ]_vars

\* C18's case: the second login of a session returned its redirect while the
\* first one's verifier was still pending; both are pending now.
C18_Witness ==
    /\ adapter.supports_state
    /\ LoginReturned
    /\ last.result = Redirect(FreshState(2))
    /\ DOMAIN store[last.req.session] = {FreshState(1), FreshState(2)}

\* The outcomes the state check and hand-off of worker w would have, had its
\* callback carried the state parameter st: the result returned and what is
\* left pending in the session.
HandOffOutcomes(w, st) ==
    { [result |-> IF r.exc = None
                  THEN Completed(AttachState(loc[w].login, r.state))
                  ELSE CallbackExcept(r.exc),
       pending |-> r.pending] :
        r \in LoginState(adapter, store[req[w].session], st) }

\* C14: without supports_state, a callback never verifies its state
\* parameter and its outcome does not depend on it: from the same store
\* contents, callbacks that differ only in state have the same possible
\* results and leave the same entries pending, each result is a completed
\* login whose metadata is what unstash_state gives, and no callback ends
\* in StateMismatchError.
C14_StateIgnoredWithoutSupport ==
    ~adapter.supports_state =>
      /\ \A w \in Workers :
           pc[w] = "verify" =>
             \A st \in StateParams :
               /\ HandOffOutcomes(w, st) = HandOffOutcomes(w, req[w].state)
               /\ LoginState(adapter, store[req[w].session], st)
                    = unstash_state(store[req[w].session])
               /\ \A o \in HandOffOutcomes(w, st) :
                    o.result.kind = "completed"
      /\ CallbackReturned => last.result # StateMismatch
      /\ ( CallbackReturned /\ CompleteLoginSucceeded )
         => /\ last.result.kind = "completed"
            /\ last.result.login.state \in
                 {NoMeta} \cup
                 { e.meta : e \in { x \in stashed :
                                     x.session = last.req.session } }

\* C14's case: without supports_state, a callback with a made-up state
\* completed with the metadata of a login pending in its session.
C14_Witness ==
    /\ ~adapter.supports_state
    /\ CallbackReturned
    /\ last.req.state = "forged"
    /\ last.result.kind = "completed"
    /\ last.result.login.state.action = REAUTHENTICATE

\* C15: the views keep nothing between requests and the adapter never
\* changes; a step changes the pending state of a session only if it is a
\* step of a request of that session; a verifier is consumed only by a
\* request of the session it was stashed in; and the result of a state check
\* and hand-off, with what it leaves pending, is what the request's own
\* locals and its own session's pending state give, whatever the requests
\* of other sessions have done in between.
C15_SessionsIndependent ==
    [][ /\ adapter' = adapter
        /\ \A w \in Workers :
             pc'[w] = "idle" => (req'[w] = NoReq /\ loc'[w] = NoLoc)
        /\ \A s \in Sessions :
             store'[s] # store[s] => (last' # last /\ last'.req.session = s)
        /\ \A c \in consumed' \ consumed :
             /\ c.by = last'.req.id
             /\ StashedIn(last'.req.session, c.verifier)
        /\ \A w \in Workers :
             ( pc[w] = "verify" /\ pc'[w] = "idle" )
             => [result |-> last'.result,
                 pending |-> store'[req[w].session]]
                  \in HandOffOutcomes(w, req[w].state) ]_vars

\* C15's case: while a callback of one session was between its token
\* exchange and its state check, a login of the other session stashed its
\* state; the callback then completed and the other session's state is
\* still pending.
C15_Witness ==
    /\ adapter.supports_state
    /\ CallbackReturned
    /\ last.result.kind = "completed"
    /\ last.req.id = 2
    /\ nops = 3
    /\ \E e \in stashed :
         /\ e.session # last.req.session
         /\ e.verifier \in DOMAIN store[e.session]

\* The exchange, parse_token and complete_login of these locals all
\* succeeded.
ThreeStepsDone(l) ==
    /\ l.exchanges = 1
    /\ l.token_data # NoData
    /\ l.token.token # None
    /\ l.complete_logins = 1
    /\ l.login.account # None

\* C16: the state check comes after the exchange, parse_token and
\* complete_login and before the hand-off: a callback is at the state check
\* only when the three have succeeded and nothing has been handed off, and
\* a callback that has returned without the three succeeding has consumed
\* no verifier and handed nothing off, so that the state it presented, if
\* it was pending, is still pending with the metadata it was stashed with.
C16_StateCheckedLast ==
    /\ \A w \in Workers :
         pc[w] = "verify" =>
           /\ ThreeStepsDone(loc[w])
           /\ loc[w].handoffs = 0
           /\ \A c \in consumed : c.by # req[w].id
    /\ ( CallbackReturned /\ last.loc.handoffs = 1 )
       => ThreeStepsDone(last.loc)
    /\ ( CallbackReturned /\ ~ThreeStepsDone(last.loc) )
       => /\ last.result.kind # "completed"
          /\ last.loc.handoffs = 0
          /\ \A c \in consumed : c.by # last.req.id
          /\ \A e \in stashed :
               ( /\ e.session = last.req.session
                 /\ e.verifier = last.req.state
                 /\ ~ConsumedByOther(e.verifier, last.req.id) )
               => /\ e.verifier \in DOMAIN store[e.session]
                  /\ store[e.session][e.verifier] = e.meta

\* C16's case: complete_login failed in a callback that presented a pending
\* state, and the state is still pending.
C16_Witness ==
    /\ adapter.supports_state
    /\ CallbackReturned
    /\ last.result = Failed("ProviderError")
    /\ last.loc.exchanges = 1
    /\ last.loc.complete_logins = 1
    /\ PresentedPending
    /\ last.req.state \in DOMAIN store[last.req.session]

\* C19: a callback rejected on the fast path (error present and not empty,
\* or code absent or empty) has consumed no verifier and handed nothing
\* off; the state it presented, if it was pending, is still pending with
\* the metadata it was stashed with, so that a later callback presenting it
\* is a valid one (C1).
C19_FastPathLeavesStore ==
    ( /\ CallbackReturned
      /\ (Truthy(last.req.error) \/ ~Truthy(last.req.code)) )
    => /\ last.result.kind = "failed"
       /\ last.loc = NoLoc
       /\ \A c \in consumed : c.by # last.req.id
       /\ \A e \in stashed :
            ( /\ e.session = last.req.session
              /\ e.verifier = last.req.state
              /\ ~ConsumedByOther(e.verifier, last.req.id) )
            => /\ e.verifier \in DOMAIN store[e.session]
               /\ store[e.session][e.verifier] = e.meta

\* C19's case: a cancel that carried a code and a pending state was
\* rejected, and the state is still pending.
C19_Witness ==
    /\ adapter.supports_state
    /\ CallbackReturned
    /\ last.req.error = "access_denied"
    /\ last.req.code = "c1"
    /\ last.result = Failed(CANCELLED)
    /\ PresentedPending
    /\ last.req.state \in DOMAIN store[last.req.session]

====
